---- MODULE Spec2Model ----
(***************************************************************************)
(* EnergyGrid aggregator: the queue-based RateLimiter (lib/rateLimiter),   *)
(* the retrying API client (lib/apiClient), the batch planner              *)
(* (lib/batchProcessor), the orchestrator (services/aggregator), the       *)
(* dashboard's routes (app.js, production.js) and production.js' mock      *)
(* device API.                                                             *)
(*                                                                         *)
(* JavaScript runs one synchronous segment at a time: every action below   *)
(* is one such segment, from the event that resumes the code (a submitted  *)
(* call, a timer, a settled promise, an HTTP response) to the next await.  *)
(* Date.now() is the variable now, in milliseconds; setTimeout(ms) never   *)
(* fires before ms have elapsed.                                           *)
(***************************************************************************)
EXTENDS Integers, Sequences, FiniteSets, TLC

\* ---- config.js ----------------------------------------------------------
RATE_LIMIT_MS == 1100
MAX_RETRIES == 3
INITIAL_RETRY_DELAY_MS == 1500

\* ---- production.js -------------------------------------------------------
\* The mock API's window between accepted requests, the largest sn_list it answers.
MOCK_WINDOW_MS == 950
MOCK_MAX_BATCH == 10

\* ---- bounds of the model -------------------------------------------------
\* Date.now() when the process starts (any value larger than every delay).
StartTime == 100000
\* The clock advances in steps of TickMs.
TickMs == 500
\* How long after StartTime the clock may run, for a run / for the limiter alone.
RunHorizon == 12000
DashboardHorizon == 5000
\* Concurrent batch fetches: how long the clock runs, how many are submitted.
ClientsHorizon == 5000
\* How long after StartTime callers keep submitting when the limiter is
\* followed until it has drained its queue.
SubmitHorizon == 1500
MaxFetchTasks == 2
\* Long enough for a run to end whatever it is answered: per batch three
\* backoffs (1500 + 3000 + 6000 ms) and four calls in flight.
LiveHorizon == 27000
\* Against the mock API: the step of the clock while a request or its answer
\* travels, and the longest either of them travels.
MockTickMs == 100
MaxDelay == 250
LimiterHorizon == 4000
\* The longest an outbound call stays in flight.
MaxLatency == 500
\* Calls of execute() over the lifetime of the limiter.
MaxTasks == 3
\* Devices of the fleet and devices per request (config.js: 500 and 10).
TotalDevices == 3
BatchSize == 2
\* Arguments prepareBatches() is tried with: device counts up to MaxPlanTotal,
\* batch sizes up to MaxPlanBatch, the non-positive values 0 and -1 of both,
\* and one count beyond three digits, in batches of WideBatch.
MaxPlanTotal == 6
MaxPlanBatch == 4
WideTotal == 1001
WideBatch == 400
\* Iterations of createBatches' loop that are followed when the batch size is
\* not positive.
MaxPlanSteps == 8

\* Runs the dashboard is asked for.
MaxRuns == 2

VARIABLES
    now,          \* Date.now()
    rateLimiter,  \* the singleton: intervalMs, lastRequestTime, queue, processing
    loops,        \* loops[l]: the processQueue() invocation made by the l-th execute()
    calls,        \* calls[t]: the t-th execute(fn): its fn and its promise (runs and
                  \* cleared are history: fn() invocations, dropped by clear())
    fetches,      \* fetches[t]: the fetchDeviceData recursion started by task t
    started,      \* history: every fn() invocation in order: the task, Date.now()
                  \* and the number of entries then waiting in the queue
    submitted,    \* history: the tasks in the order execute() was called
    httpLog,      \* history: start times of the last two outbound HTTP calls
    run,          \* aggregateDeviceData(): its locals and its position
    planner,      \* prepareBatches(): its arguments, locals and position
    aggregationState, \* the dashboard's state object (app.js, production.js)
    lastResponse, \* the dashboard's answer to the last /api request
    mock          \* production.js' mock device API: lastRequestTime and its log

vars == <<now, rateLimiter, loops, calls, fetches, started, submitted, httpLog, run,
          planner, aggregationState, lastResponse, mock>>

\* What the limiter, the client and the orchestrator never touch.
outside == <<planner, aggregationState, lastResponse, mock>>

Max(a, b) == IF a > b THEN a ELSE b

\* Task ids: enough for the limiter's callers and for the dashboard's runs.
MaxTaskId == Max(MaxTasks, MaxRuns * ((TotalDevices + BatchSize - 1) \div BatchSize))
TaskIds == 1..MaxTaskId

RECURSIVE Pow2(_)
\* Math.pow(2, n)
Pow2(n) == IF n = 0 THEN 1 ELSE 2 * Pow2(n - 1)

\* The limiter, its callers and the client as one value, so that the steps of
\* a synchronous segment compose.
State ==
    [rl |-> rateLimiter, loops |-> loops, calls |-> calls, fetches |-> fetches,
     started |-> started, submitted |-> submitted, http |-> httpLog]

Install(S) ==
    /\ rateLimiter' = S.rl
    /\ loops' = S.loops
    /\ calls' = S.calls
    /\ fetches' = S.fetches
    /\ started' = S.started
    /\ submitted' = S.submitted
    /\ httpLog' = S.http

RECURSIVE toString(_)
\* Number.prototype.toString(): the decimal digits of i >= 0, most significant first.
toString(i) == IF i < 10 THEN <<i>> ELSE toString(i \div 10) \o <<i % 10>>

\* No generateAuthHeaders() result yet; call is the rank of the call that made
\* the object among all calls of generateAuthHeaders.
NoHeaders == [timestamp |-> <<>>, signature |-> <<>>, call |-> 0]
NoRequest == [timestamp |-> <<>>, signature |-> <<>>, call |-> 0, sn_list |-> <<>>]

IdleLoop == [pc |-> "idle", task |-> 0, wake |-> 0]
NoValue == [error |-> "", hasData |-> FALSE, data |-> <<>>]
NoCall ==
    [fn |-> "none", arg |-> <<>>, promise |-> "none", value |-> NoValue, runs |-> 0,
     cleared |-> FALSE]
NoFetch ==
    [pc |-> "idle", snList |-> <<>>, retryCount |-> 0, attempts |-> 0,
     lastStart |-> 0, sleepFrom |-> 0, delay |-> 0, wake |-> 0, seen |-> {},
     last |-> "none", authHeaders |-> NoHeaders]

\* ---- lib/apiClient: fetchDeviceData --------------------------------------

API_ENDPOINT == "/device/real/query"
SECRET_TOKEN == "interview_token_123"

\* crypto.createHash('md5').update(url + token + timestamp).digest('hex'): the
\* digest stands for the payload it was computed from.
generateSignature(url, token, timestamp) == <<"md5", url, token, timestamp>>

\* generateAuthHeaders(url, token), as call number `call` of that function.
generateAuthHeaders(url, token, call) ==
    LET timestamp == toString(now)
    IN  [timestamp |-> timestamp, signature |-> generateSignature(url, token, timestamp),
         call |-> call]

\* requestOptions: the two auth headers and the body.
requestOptions(authHeaders, snList) ==
    [timestamp |-> authHeaders.timestamp, signature |-> authHeaders.signature,
     call |-> authHeaders.call, sn_list |-> snList]

\* Mutant of fetchDeviceData: a retry sends the headers of the first attempt again
fetchDeviceDataStaleHeaders(S, t, snList, retryCount) ==
    LET authHeaders == IF retryCount = 0
                       THEN generateAuthHeaders(API_ENDPOINT, SECRET_TOKEN, S.http.generated + 1)
                       ELSE S.fetches[t].authHeaders
    IN  [S EXCEPT
            !.fetches[t] = [@ EXCEPT !.pc = "http", !.snList = snList,
                                     !.retryCount = retryCount,
                                     !.attempts = @ + 1, !.lastStart = now,
                                     !.authHeaders = authHeaders],
            !.http = [prev |-> @.last, last |-> now, n |-> @.n + 1,
                      generated |-> IF retryCount = 0 THEN @.generated + 1 ELSE @.generated,
                      sent |-> requestOptions(authHeaders, snList)]]

\* Mutant of fetchDeviceData: every attempt takes a new pacing slot
fetchDeviceDataRepaced(S, t, snList, retryCount) ==
    LET authHeaders == generateAuthHeaders(API_ENDPOINT, SECRET_TOKEN, S.http.generated + 1)
    IN  [S EXCEPT
            !.rl.lastRequestTime = now,
            !.fetches[t] = [@ EXCEPT !.pc = "http", !.snList = snList,
                                     !.retryCount = retryCount,
                                     !.attempts = @ + 1, !.lastStart = now,
                                     !.authHeaders = authHeaders],
            !.http = [prev |-> @.last, last |-> now, n |-> @.n + 1,
                      generated |-> @.generated + 1,
                      sent |-> requestOptions(authHeaders, snList)]]

\* fetchDeviceData(snList, retryCount) up to its await fetch(...): one outbound call.
fetchDeviceData(S, t, snList, retryCount) ==
    LET authHeaders == generateAuthHeaders(API_ENDPOINT, SECRET_TOKEN, S.http.generated + 1)
    IN  [S EXCEPT
            !.fetches[t] = [@ EXCEPT !.pc = "http", !.snList = snList,
                                     !.retryCount = retryCount,
                                     !.attempts = @ + 1, !.lastStart = now,
                                     !.authHeaders = authHeaders],
            !.http = [prev |-> @.last, last |-> now, n |-> @.n + 1,
                      generated |-> @.generated + 1,
                      sent |-> requestOptions(authHeaders, snList)]]

\* The error thrown by fetch() itself on a transport failure: a TypeError whose
\* message contains 'fetch' (apiClient's test in its catch block).
FetchFailed == "fetch failed"
RateLimitExceeded == "Rate limit exceeded after 3 retries"
AuthenticationFailed == "Authentication failed"
ApiError == "API Error"

\* ---- lib/rateLimiter: RateLimiter ----------------------------------------

RECURSIVE whileLoop(_, _)

\* Mutant of deliver: no catch around await fn(), a failure ends the loop.
deliverNoCatch(S, l, t, ok, value) ==
    IF ok
    THEN whileLoop([S EXCEPT !.calls[t].promise = "resolved",
                             !.calls[t].value = value], l)
    ELSE [S EXCEPT !.loops[l] = IdleLoop]

\* resolve(result) / reject(error) of the dequeued entry; the loop goes on.
deliver(S, l, t, ok, value) ==
    whileLoop([S EXCEPT !.calls[t].promise = IF ok THEN "resolved" ELSE "rejected",
                        !.calls[t].value = value], l)

\* try { this.lastRequestTime = Date.now(); const result = await fn(); ...
\* A fn that throws before returning a promise lands in the catch at once.
startTask(S, l, t) ==
    LET S1 == [S EXCEPT !.rl.lastRequestTime = now,
                        !.started = Append(@, [task |-> t, at |-> now,
                                              waiting |-> Len(S.rl.queue)]),
                        !.calls[t].runs = @ + 1]
        fn == S.calls[t].fn
    IN  IF fn = "throw"
        THEN deliver(S1, l, t, FALSE, [NoValue EXCEPT !.error = "thrown"])
        ELSE LET S2 == IF fn = "fetch"
                       THEN fetchDeviceData(S1, t, S.calls[t].arg, 0)
                       ELSE S1
             IN  [S2 EXCEPT !.loops[l] = [pc |-> "await", task |-> t, wake |-> 0]]

\* Mutant of shift: this.queue.pop()
pop(queue) ==
    [entry |-> queue[Len(queue)], rest |-> SubSeq(queue, 1, Len(queue) - 1)]

\* this.queue.shift()
shift(queue) == [entry |-> Head(queue), rest |-> Tail(queue)]

\* Mutant of waitTime: Math.min for Math.max
waitTimeMin(rl) ==
    LET w == rl.intervalMs - (now - rl.lastRequestTime)
    IN  IF w < 0 THEN w ELSE 0

\* Mutant of waitTime: paces 200 ms closer than the interval
waitTimeShort(rl) == Max(0, rl.intervalMs - 200 - (now - rl.lastRequestTime))

\* const waitTime = Math.max(0, this.intervalMs - (now - this.lastRequestTime))
waitTime(rl) == Max(0, rl.intervalMs - (now - rl.lastRequestTime))

\* while (this.queue.length > 0) { shift; wait; run } this.processing = false
whileLoop(S, l) ==
    IF Len(S.rl.queue) > 0
    THEN LET d == shift(S.rl.queue)
             S1 == [S EXCEPT !.rl.queue = d.rest]
             w == waitTime(S1.rl)
         IN  IF w > 0
             THEN [S1 EXCEPT !.loops[l] =
                      [pc |-> "sleep", task |-> d.entry, wake |-> now + w]]
             ELSE startTask(S1, l, d.entry)
    ELSE [S EXCEPT !.rl.processing = FALSE, !.loops[l] = IdleLoop]

\* Mutant of processQueue: the processing flag is not tested
processQueueNoGuard(S, l) ==
    IF Len(S.rl.queue) = 0
    THEN S
    ELSE whileLoop([S EXCEPT !.rl.processing = TRUE], l)

\* if (this.processing || this.queue.length === 0) return; this.processing = true
processQueue(S, l) ==
    IF S.rl.processing \/ Len(S.rl.queue) = 0
    THEN S
    ELSE whileLoop([S EXCEPT !.rl.processing = TRUE], l)

\* Mutant of execute: the entry is pushed, processQueue() is not called
executeNoKick(S, t, fn, arg) ==
    [S EXCEPT !.rl.queue = Append(@, t),
              !.calls[t] = [fn |-> fn, arg |-> arg, promise |-> "pending",
                            value |-> NoValue, runs |-> 0, cleared |-> FALSE],
              !.submitted = Append(@, t)]

\* execute(fn): push { fn, resolve, reject } and call processQueue()
execute(S, t, fn, arg) ==
    processQueue(
        [S EXCEPT !.rl.queue = Append(@, t),
                  !.calls[t] = [fn |-> fn, arg |-> arg, promise |-> "pending",
                                value |-> NoValue, runs |-> 0, cleared |-> FALSE],
                  !.submitted = Append(@, t)], t)

\* Mutant of clear: the queue is emptied and the limiter marked idle
clearAndStop(S) ==
    [S EXCEPT !.rl.queue = <<>>,
              !.rl.processing = FALSE,
              !.calls = [t \in TaskIds |->
                            IF \E k \in 1..Len(S.rl.queue) : S.rl.queue[k] = t
                            THEN [@[t] EXCEPT !.cleared = TRUE]
                            ELSE @[t]]]

\* clear(): this.queue = []
clear(S) ==
    [S EXCEPT !.rl.queue = <<>>,
              !.calls = [t \in TaskIds |->
                            IF \E k \in 1..Len(S.rl.queue) : S.rl.queue[k] = t
                            THEN [@[t] EXCEPT !.cleared = TRUE]
                            ELSE @[t]]]

\* The loop whose await fn() is waiting for task t.
AwaitingLoops(S, t) ==
    {l \in TaskIds : S.loops[l].pc = "await" /\ S.loops[l].task = t}

\* The promise returned by fn() settles: the awaiting loop resumes.
settle(S, t, ok, value) ==
    IF AwaitingLoops(S, t) = {}
    THEN S
    ELSE deliver(S, CHOOSE l \in AwaitingLoops(S, t) : TRUE, t, ok, value)

\* ---- lib/apiClient: the response of one attempt --------------------------

\* Mutant of retryDelay: linear instead of exponential
retryDelayLinear(retryCount) == INITIAL_RETRY_DELAY_MS * (retryCount + 1)

\* config.INITIAL_RETRY_DELAY_MS * Math.pow(2, retryCount)
retryDelay(retryCount) == INITIAL_RETRY_DELAY_MS * Pow2(retryCount)

\* await sleep(delay); return fetchDeviceData(snList, retryCount + 1)
backoff(S, t) ==
    LET delay == retryDelay(S.fetches[t].retryCount)
    IN  [S EXCEPT !.fetches[t].pc = "backoff", !.fetches[t].sleepFrom = now,
                  !.fetches[t].delay = delay, !.fetches[t].wake = now + delay]

\* The promise of the outermost fetchDeviceData settles.
finish(S, t, ok, value) ==
    settle([S EXCEPT !.fetches[t].pc = "done"], t, ok, value)

\* Mutant of catchBlock: every error is retried, whatever its kind
catchBlockRetryAll(S, t, error) ==
    IF S.fetches[t].retryCount < MAX_RETRIES
    THEN backoff(S, t)
    ELSE finish(S, t, FALSE, [NoValue EXCEPT !.error = error])

\* Mutant of catchBlock: no retry of transport failures
catchBlockNoRetry(S, t, error) ==
    finish(S, t, FALSE, [NoValue EXCEPT !.error = error])

\* Mutant of catchBlock: return await fetchDeviceData(...), so that the last
\* retry's TypeError is caught again by the attempt that made the retry
catchBlockOuterRetries(S, t, error) ==
    IF error = FetchFailed /\ S.fetches[t].retryCount < MAX_RETRIES
    THEN backoff(S, t)
    ELSE IF error = FetchFailed /\ S.fetches[t].retryCount > 0
    THEN backoff([S EXCEPT !.fetches[t].retryCount = @ - 1], t)
    ELSE finish(S, t, FALSE, [NoValue EXCEPT !.error = error])

\* catch (error): a TypeError of fetch is retried while retryCount < MAX_RETRIES,
\* anything else (and the TypeError at the last retry) is thrown on; the retry
\* is returned, not awaited, so its outcome is the outcome of the whole call.
catchBlock(S, t, error) ==
    IF error = FetchFailed /\ S.fetches[t].retryCount < MAX_RETRIES
    THEN backoff(S, t)
    ELSE finish(S, t, FALSE, [NoValue EXCEPT !.error = error])

\* Mutant of on429: a 429 is retried whatever the retry count
on429Unbounded(S, t) == backoff(S, t)

\* if (response.status === 429) { retry while retryCount < MAX_RETRIES, else throw }
on429(S, t) ==
    IF S.fetches[t].retryCount < MAX_RETRIES
    THEN backoff(S, t)
    ELSE catchBlock(S, t, RateLimitExceeded)

\* if (response.status === 401) throw new Error('Authentication failed: ...')
on401(S, t) == catchBlock(S, t, AuthenticationFailed)

\* The code after await fetch(...): the response classified.
\* resp.status is "neterr" when fetch() rejected instead of answering.
onResponse(S, t, resp) ==
    LET S1 == [S EXCEPT !.fetches[t].seen = @ \cup {resp.status},
                        !.fetches[t].last = resp.status]
    IN  CASE resp.status = "neterr" -> catchBlock(S1, t, FetchFailed)
          [] resp.status = "429" -> on429(S1, t)
          [] resp.status = "401" -> on401(S1, t)
          [] resp.status \in {"400", "500"} -> catchBlock(S1, t, ApiError)
          [] OTHER -> finish(S1, t, TRUE,
                        [error |-> "", hasData |-> resp.hasData, data |-> resp.data])

\* ---- lib/batchProcessor --------------------------------------------------

RECURSIVE padStart(_, _, _)
\* String.prototype.padStart(targetLength, pad): pads on the left, never truncates.
padStart(str, targetLength, pad) ==
    IF Len(str) >= targetLength THEN str ELSE padStart(<<pad>> \o str, targetLength, pad)

\* `SN-${i.toString().padStart(3, '0')}`
SerialNumber(i) == [prefix |-> "SN-", digits |-> padStart(toString(i), 3, 0)]

\* generateSerialNumbers(count): SN-000, SN-001, ...; empty when count <= 0.
generateSerialNumbers(count) == [k \in 1..count |-> SerialNumber(k - 1)]

\* Mutant of slice: the end index is included
sliceInclusive(items, start, end) ==
    LET len  == Len(items)
        from == IF start < 0 THEN Max(len + start, 0) ELSE IF start < len THEN start ELSE len
        to   == IF end + 1 < 0 THEN Max(len + end + 1, 0) ELSE IF end + 1 < len THEN end + 1 ELSE len
    IN  SubSeq(items, from + 1, to)

\* Array.prototype.slice(start, end): 0-based, end excluded, a negative index
\* counts from the end, indices are clamped to the array.
slice(items, start, end) ==
    LET len  == Len(items)
        from == IF start < 0 THEN Max(len + start, 0) ELSE IF start < len THEN start ELSE len
        to   == IF end < 0 THEN Max(len + end, 0) ELSE IF end < len THEN end ELSE len
    IN  SubSeq(items, from + 1, to)

RECURSIVE createBatchesFrom(_, _, _)
\* for (let i = 0; i < items.length; i += batchSize) batches.push(items.slice(i, i + batchSize))
\* (evaluated only with batchSize >= 1; the loop itself is stepped by CreateBatchesStep)
createBatchesFrom(items, batchSize, i) ==
    IF i < Len(items)
    THEN <<slice(items, i, i + batchSize)>> \o createBatchesFrom(items, batchSize, i + batchSize)
    ELSE <<>>

createBatches(items, batchSize) == createBatchesFrom(items, batchSize, 0)

prepareBatches(totalDevices, batchSize) ==
    LET serialNumbers == generateSerialNumbers(totalDevices)
        batches == createBatches(serialNumbers, batchSize)
    IN  [serialNumbers |-> serialNumbers, batches |-> batches,
         totalDevices |-> totalDevices, batchSize |-> batchSize,
         totalBatches |-> Len(batches)]

\* prepareBatches() run step by step, one iteration of createBatches' loop at a
\* time, so that a loop that does not end shows.
IdlePlanner ==
    [pc |-> "idle", totalDevices |-> 0, batchSize |-> 0, serialNumbers |-> <<>>,
     batches |-> <<>>, i |-> 0, totalBatches |-> 0]

\* prepareBatches(totalDevices, batchSize) up to the head of createBatches' loop.
enterCreateBatches(totalDevices, batchSize) ==
    [IdlePlanner EXCEPT !.pc = "loop", !.totalDevices = totalDevices,
                        !.batchSize = batchSize,
                        !.serialNumbers = generateSerialNumbers(totalDevices)]

\* One evaluation of the loop condition: an iteration, or the return of both functions.
createBatchesStep(p) ==
    IF p.i < Len(p.serialNumbers)
    THEN [p EXCEPT !.batches = Append(@, slice(p.serialNumbers, p.i, p.i + p.batchSize)),
                   !.i = @ + p.batchSize]
    ELSE [p EXCEPT !.pc = "done", !.totalBatches = Len(p.batches)]

\* ---- services/aggregator: aggregateDeviceData ----------------------------

NoReport ==
    [summary |-> [totalDevices |-> 0, successfulFetches |-> 0, failedFetches |-> 0,
                  onlineDevices |-> 0, offlineDevices |-> 0, totalBatches |-> 0,
                  errorsCount |-> 0, durationSeconds |-> 0],
     devices |-> <<>>, errorsDefined |-> FALSE, errors |-> <<>>]

IdleRun ==
    [pc |-> "idle", i |-> 0, task |-> 0, batches |-> <<>>, totalDevices |-> 0,
     totalBatches |-> 0, allResults |-> <<>>, errors |-> <<>>, successCount |-> 0,
     onlineCount |-> 0, offlineCount |-> 0, report |-> NoReport,
     startTime |-> 0, onProgress |-> "none", notified |-> <<>>]

\* What aggregateDeviceData may be given as onProgress: nothing, or a function.
Observers == {"none", "listener"}

\* ... or a function that throws when it is called.
AnyObservers == Observers \cup {"throws"}

\* The message of the error a throwing onProgress throws.
ObserverError == "observer threw"

\* Number.prototype.toFixed(digits) of the quotient num / den, as the integer
\* number of units of 10^-digits (the decimal string without its point).
toFixed(num, den, digits) ==
    LET scale == IF digits = 0 THEN 1 ELSE IF digits = 1 THEN 10 ELSE 100
    IN  (2 * num * scale + den) \div (2 * den)

\* The object handed to onProgress for the batch at index r.i; progress is
\* ((i + 1) / totalBatches * 100).toFixed(1), in tenths of a percent.
progressEvent(r, response) ==
    [batchIndex |-> r.i, totalBatches |-> r.totalBatches, batchResults |-> response.data,
     progress |-> toFixed((r.i + 1) * 100, r.totalBatches, 1),
     successCount |-> r.successCount, onlineCount |-> r.onlineCount,
     offlineCount |-> r.offlineCount]

\* if (onProgress) onProgress({...}): the listener is called synchronously; what
\* it is handed, and how many tasks had been given to the limiter by then.
notify(S, r, response) ==
    IF r.onProgress = "none"
    THEN r
    ELSE [r EXCEPT !.notified = Append(@, [event |-> progressEvent(r, response),
                                           submitted |-> Len(S.submitted)])]

\* response.data.forEach(device => device.status === 'Online' ? onlineCount++ : offlineCount++)
CountStatus(data, status) == Cardinality({k \in 1..Len(data) : data[k].status = status})

\* Mutant of onBatchResponse: counts answered batches, not devices
onBatchResponseCountBatches(S, r, response) ==
    IF response.hasData
    THEN notify(S, [r EXCEPT !.allResults = @ \o response.data,
                             !.successCount = @ + 1,
                             !.onlineCount = @ + CountStatus(response.data, "Online"),
                             !.offlineCount = @ + (Len(response.data)
                                                   - CountStatus(response.data, "Online"))],
                response)
    ELSE r

\* Mutant of onBatchResponse: the listener is called before the batch is counted
onBatchResponseNotifyFirst(S, r, response) ==
    IF response.hasData
    THEN LET n == notify(S, r, response)
         IN  [n EXCEPT !.allResults = @ \o response.data,
                       !.successCount = @ + Len(response.data),
                       !.onlineCount = @ + CountStatus(response.data, "Online"),
                       !.offlineCount = @ + (Len(response.data)
                                             - CountStatus(response.data, "Online"))]
    ELSE r

\* The try body after await rateLimiter.execute(...) resolved with response.
onBatchResponse(S, r, response) ==
    IF response.hasData
    THEN notify(S, [r EXCEPT !.allResults = @ \o response.data,
                             !.successCount = @ + Len(response.data),
                             !.onlineCount = @ + CountStatus(response.data, "Online"),
                             !.offlineCount = @ + (Len(response.data)
                                                   - CountStatus(response.data, "Online"))],
                response)
    ELSE r

\* catch (error) { errors.push({ batch: batchNumber, serialNumbers: batch, error: error.message }) }
onBatchError(r, error) ==
    [r EXCEPT !.errors = Append(@, [batch |-> r.i + 1,
                                    serialNumbers |-> r.batches[r.i + 1],
                                    error |-> error])]

\* The report built after the loop; durationSeconds is
\* ((endTime - startTime) / 1000).toFixed(2), in hundredths of a second.
makeReport(r) ==
    [r EXCEPT !.pc = "done",
              !.report = [summary |-> [totalDevices |-> r.totalDevices,
                                       successfulFetches |-> r.successCount,
                                       failedFetches |-> r.totalDevices - r.successCount,
                                       onlineDevices |-> r.onlineCount,
                                       offlineDevices |-> r.offlineCount,
                                       totalBatches |-> r.totalBatches,
                                       errorsCount |-> Len(r.errors),
                                       durationSeconds |->
                                           toFixed(now - r.startTime, 1000, 2)],
                          devices |-> r.allResults,
                          errorsDefined |-> Len(r.errors) > 0,
                          errors |-> r.errors]]

\* The head of the for loop at index r.i: submit batches[i] or leave the loop.
\* Yields the orchestrator's locals and the limiter's state.
forLoop(S, r) ==
    IF r.i < Len(r.batches)
    THEN LET t == Len(S.submitted) + 1
         IN  [run |-> [r EXCEPT !.pc = "await", !.task = t],
              S |-> execute(S, t, "fetch", r.batches[r.i + 1])]
    ELSE [run |-> makeReport(r), S |-> S]

\* aggregateDeviceData(onProgress) up to its first await: the clock is read, the
\* plan is made from the configuration, the loop is entered.
aggregateDeviceData(S, onProgress) ==
    LET p == prepareBatches(TotalDevices, BatchSize)
    IN  forLoop(S, [IdleRun EXCEPT !.startTime = now,
                                   !.onProgress = onProgress,
                                   !.batches = p.batches,
                                   !.totalDevices = p.totalDevices,
                                   !.totalBatches = p.totalBatches])

\* Mutant of afterBatch: no try/catch, the batch's error leaves the function
afterBatchNoCatch(S, r) ==
    LET c == S.calls[r.task]
    IN  IF c.promise = "resolved"
        THEN forLoop(S, [onBatchResponse(S, r, c.value) EXCEPT !.i = @ + 1])
        ELSE [run |-> [r EXCEPT !.pc = "threw"], S |-> S]

\* Mutant of afterBatch: the next batch is submitted before the listener is called
afterBatchSubmitFirst(S, r) ==
    LET c == S.calls[r.task]
        ahead == forLoop(S, [r EXCEPT !.i = @ + 1]).S
        r1 == IF c.promise = "resolved"
              THEN onBatchResponse(ahead, r, c.value)
              ELSE onBatchError(r, c.value.error)
    IN  forLoop(S, [r1 EXCEPT !.i = @ + 1])

\* The continuation of await rateLimiter.execute(...), then i++ and the loop head.
\* onProgress is called inside the try: what it throws is caught by the same
\* catch as the batch's own error, after the batch has been counted.
afterBatch(S, r) ==
    LET c == S.calls[r.task]
        r1 == IF c.promise = "resolved"
              THEN LET n == onBatchResponse(S, r, c.value)
                   IN  IF c.value.hasData /\ r.onProgress = "throws"
                       THEN onBatchError(n, ObserverError)
                       ELSE n
              ELSE onBatchError(r, c.value.error)
    IN  forLoop(S, [r1 EXCEPT !.i = @ + 1])

\* ---- what the endpoint may answer ----------------------------------------

\* The data array the endpoint answers for snList: one record per device, the
\* first one Offline and the others Online.
DataFor(snList) ==
    [k \in 1..Len(snList) |->
        [sn |-> snList[k], status |-> IF k = 1 THEN "Offline" ELSE "Online"]]

\* 200 with a data array, 200 with a body that has none, an error status, or
\* no answer at all (fetch rejects).
Responses(snList) ==
    {[status |-> "200", hasData |-> TRUE, data |-> DataFor(snList)]}
    \cup {[status |-> s, hasData |-> FALSE, data |-> <<>>] :
            s \in {"200", "429", "401", "500", "neterr"}}

\* ---- the dashboard (app.js, production.js) -------------------------------

\* const aggregationState = { isRunning: false, progress: 0, devices: [], summary: null, errors: [] }
\* progress is in tenths of a percent; startTime and counts are the properties
\* the object has only once they were assigned (a sequence of none or one).
initialState ==
    [isRunning |-> FALSE, progress |-> 0, devices |-> <<>>, hasSummary |-> FALSE,
     summary |-> NoReport.summary, errors |-> <<>>, startTime |-> <<>>, counts |-> <<>>]

\* The answer to the last request: which route, which HTTP status.
NoResponse == [request |-> "none", status |-> 0]

\* Mutant of aggregateHandler: no check of isRunning
aggregateHandlerNoGuard(st) ==
    [started |-> TRUE, status |-> 200,
     state |-> [initialState EXCEPT !.isRunning = TRUE, !.startTime = <<now>>]]

\* POST /api/aggregate up to res.json(): 409 while a run is going on, else
\* the state object is replaced and the run is started.
aggregateHandler(st) ==
    IF st.isRunning
    THEN [started |-> FALSE, status |-> 409, state |-> st]
    ELSE [started |-> TRUE, status |-> 200,
          state |-> [initialState EXCEPT !.isRunning = TRUE, !.startTime = <<now>>]]

\* The listener POST /api/aggregate hands to aggregateDeviceData;
\* parseFloat(progressData.progress) is the number the string denotes.
progressListener(st, progressData) ==
    [st EXCEPT !.progress = progressData.progress,
               !.devices = @ \o progressData.batchResults,
               !.counts = <<[onlineCount |-> progressData.onlineCount,
                            offlineCount |-> progressData.offlineCount,
                            successCount |-> progressData.successCount]>>]

\* Mutant of runReturned: isRunning is left as it is
runReturnedStillRunning(st, report) ==
    [st EXCEPT !.hasSummary = TRUE, !.summary = report.summary,
               !.errors = IF report.errorsDefined THEN report.errors ELSE <<>>,
               !.progress = 1000]

\* Mutant of runReturned: progress is left as the listener set it
runReturnedKeepProgress(st, report) ==
    [st EXCEPT !.isRunning = FALSE, !.hasSummary = TRUE, !.summary = report.summary,
               !.errors = IF report.errorsDefined THEN report.errors ELSE <<>>]

\* The continuation of await aggregateDeviceData(...) with the report.
runReturned(st, report) ==
    [st EXCEPT !.isRunning = FALSE, !.hasSummary = TRUE, !.summary = report.summary,
               !.errors = IF report.errorsDefined THEN report.errors ELSE <<>>,
               !.progress = 1000]

\* catch (error) { isRunning = false; errors.push({ message: error.message }) }
runThrew(st, message) ==
    [st EXCEPT !.isRunning = FALSE, !.errors = Append(@, [message |-> message])]

\* Mutant of resetHandler: no check of isRunning
resetHandlerNoGuard(st) == [status |-> 200, state |-> initialState]

\* POST /api/reset: 409 while a run is going on, else the state object is replaced.
resetHandler(st) ==
    IF st.isRunning
    THEN [status |-> 409, state |-> st]
    ELSE [status |-> 200, state |-> initialState]

\* ---- production.js: the mock device API ----------------------------------

\* let lastRequestTime = 0, and the server's log: requests handled so far, the
\* answer to the last one, when it arrived and how long it had travelled,
\* whether a request travelled more than the client's margin faster than the
\* request before it, and the requests answered 429.
IdleMock ==
    [lastRequestTime |-> 0, handled |-> 0,
     response |-> [status |-> "", hasData |-> FALSE, data |-> <<>>],
     arrivedAt |-> 0, delay |-> 0, overtaken |-> FALSE, rejected |-> 0]

\* The three handlers mounted on /device for a request that arrives now:
\* the rate-limit middleware, the security middleware, the query endpoint.
mockAnswer(m, req) ==
    IF now - m.lastRequestTime < MOCK_WINDOW_MS
    THEN [lastRequestTime |-> m.lastRequestTime,
          response |-> [status |-> "429", hasData |-> FALSE, data |-> <<>>]]
    ELSE [lastRequestTime |-> now,
          response |->
            IF req.timestamp = <<>> \/ req.signature = <<>>
            THEN [status |-> "401", hasData |-> FALSE, data |-> <<>>]
            ELSE IF req.signature # generateSignature(API_ENDPOINT, SECRET_TOKEN, req.timestamp)
            THEN [status |-> "401", hasData |-> FALSE, data |-> <<>>]
            ELSE IF Len(req.sn_list) > MOCK_MAX_BATCH
            THEN [status |-> "400", hasData |-> FALSE, data |-> <<>>]
            ELSE [status |-> "200", hasData |-> TRUE, data |-> DataFor(req.sn_list)]]

\* The mock API handles the request req, sent at sentAt.
mockApi(m, req, sentAt) ==
    LET a == mockAnswer(m, req)
        delay == now - sentAt
    IN  [lastRequestTime |-> a.lastRequestTime, handled |-> m.handled + 1,
         response |-> a.response, arrivedAt |-> now, delay |-> delay,
         overtaken |-> m.overtaken
                       \/ (m.handled > 0 /\ m.delay - delay > RATE_LIMIT_MS - MOCK_WINDOW_MS),
         rejected |-> m.rejected + (IF a.response.status = "429" THEN 1 ELSE 0)]

\* ---- actions -------------------------------------------------------------

\* The continuation of the orchestrator's await is a microtask: it runs before
\* any timer or I/O callback.
MicrotaskPending ==
    /\ run.pc = "await"
    /\ calls[run.task].promise \in {"resolved", "rejected"}

Init ==
    /\ now = StartTime
    /\ rateLimiter = [intervalMs |-> RATE_LIMIT_MS, lastRequestTime |-> 0,
                      queue |-> <<>>, processing |-> FALSE]
    /\ loops = [l \in TaskIds |-> IdleLoop]
    /\ calls = [t \in TaskIds |-> NoCall]
    /\ fetches = [t \in TaskIds |-> NoFetch]
    /\ started = <<>>
    /\ submitted = <<>>
    /\ httpLog = [prev |-> 0, last |-> 0, n |-> 0, generated |-> 0, sent |-> NoRequest]
    /\ run = IdleRun
    /\ planner = IdlePlanner
    /\ aggregationState = initialState
    /\ lastResponse = NoResponse
    /\ mock = IdleMock

\* aggregateDeviceData() is called: the plan, then the first loop iteration.
StartRun ==
    /\ run.pc = "idle"
    /\ \E onProgress \in Observers :
         LET f == aggregateDeviceData(State, onProgress)
         IN  run' = f.run /\ Install(f.S)
    /\ UNCHANGED now
    /\ UNCHANGED outside

\* aggregateDeviceData() is called by a caller whose onProgress may throw.
StartRunObserved ==
    /\ run.pc = "idle"
    /\ \E onProgress \in AnyObservers :
         LET f == aggregateDeviceData(State, onProgress)
         IN  run' = f.run /\ Install(f.S)
    /\ UNCHANGED now
    /\ UNCHANGED outside

\* The orchestrator resumes with the outcome of its batch.
Resume ==
    /\ MicrotaskPending
    /\ LET f == afterBatch(State, run)
       IN  run' = f.run /\ Install(f.S)
    /\ UNCHANGED now
    /\ UNCHANGED outside

\* The endpoint answers the outbound call of task t (or the call fails).
HttpResponse(t) ==
    /\ ~MicrotaskPending
    /\ fetches[t].pc = "http"
    /\ \E resp \in Responses(fetches[t].snList) : Install(onResponse(State, t, resp))
    /\ UNCHANGED <<now, run>>
    /\ UNCHANGED outside

\* The backoff timer of task t fires: the retry.
BackoffDone(t) ==
    /\ ~MicrotaskPending
    /\ fetches[t].pc = "backoff"
    /\ now >= fetches[t].wake
    /\ Install(fetchDeviceData(State, t, fetches[t].snList, fetches[t].retryCount + 1))
    /\ UNCHANGED <<now, run>>
    /\ UNCHANGED outside

\* The pacing timer of loop l fires: the dequeued task starts.
SleepDone(l) ==
    /\ ~MicrotaskPending
    /\ loops[l].pc = "sleep"
    /\ now >= loops[l].wake
    /\ Install(startTask(State, l, loops[l].task))
    /\ UNCHANGED <<now, run>>
    /\ UNCHANGED outside

\* Some caller calls rateLimiter.execute(fn) with a fn that resolves, rejects
\* or throws.
Execute(fn) ==
    /\ Len(submitted) < MaxTasks
    /\ Install(execute(State, Len(submitted) + 1, fn, <<>>))
    /\ UNCHANGED <<now, run>>
    /\ UNCHANGED outside

\* Some caller calls rateLimiter.execute(() => fetchDeviceData(batch)) for a
\* batch of the plan, whatever the limiter is doing.
ExecuteFetch ==
    /\ Len(submitted) < MaxFetchTasks
    /\ \E b \in DOMAIN prepareBatches(TotalDevices, BatchSize).batches :
         Install(execute(State, Len(submitted) + 1, "fetch",
                         prepareBatches(TotalDevices, BatchSize).batches[b]))
    /\ UNCHANGED <<now, run>>
    /\ UNCHANGED outside

\* Some caller calls rateLimiter.clear().
Clear ==
    /\ Install(clear(State))
    /\ UNCHANGED <<now, run>>
    /\ UNCHANGED outside

\* The promise returned by the fn of the task loop l awaits settles.
FnSettle(l) ==
    /\ loops[l].pc = "await"
    /\ calls[loops[l].task].fn \in {"ok", "reject"}
    /\ LET t == loops[l].task
       IN  Install(settle(State, t, calls[t].fn = "ok",
                          [NoValue EXCEPT !.error =
                              IF calls[t].fn = "ok" THEN "" ELSE "rejected"]))
    /\ UNCHANGED <<now, run>>
    /\ UNCHANGED outside

\* Time passes.
Tick(horizon) ==
    /\ ~MicrotaskPending
    /\ now + TickMs <= StartTime + horizon
    /\ now' = now + TickMs
    /\ UNCHANGED <<rateLimiter, loops, calls, fetches, started, submitted, httpLog, run>>
    /\ UNCHANGED outside

TickLimiter == Tick(LimiterHorizon)

\* Time passes while an outbound call is in flight (at most MaxLatency per call).
HttpLatency ==
    /\ \E t \in TaskIds : /\ fetches[t].pc = "http"
                          /\ now + TickMs - fetches[t].lastStart <= MaxLatency
    /\ Tick(RunHorizon)

\* The deadlines of the timers that are set.
Deadlines ==
    {loops[l].wake : l \in {x \in TaskIds : loops[x].pc = "sleep"}}
    \cup {fetches[t].wake : t \in {x \in TaskIds : fetches[x].pc = "backoff"}}

\* Nothing is in flight: time passes until the next timer is due.
AwaitTimer(horizon) ==
    /\ ~MicrotaskPending
    /\ \A t \in TaskIds : fetches[t].pc # "http"
    /\ \E d \in Deadlines :
          /\ \A e \in Deadlines : d <= e
          /\ d > now
          /\ d <= StartTime + horizon
          /\ now' = d
    /\ UNCHANGED <<rateLimiter, loops, calls, fetches, started, submitted, httpLog, run>>
    /\ UNCHANGED outside

\* ---- the dashboard's requests ---------------------------------------------

\* Task ids left for one more run's batches.
RoomForRun ==
    Len(submitted) + prepareBatches(TotalDevices, BatchSize).totalBatches <= MaxTaskId

\* POST /api/aggregate arrives (a request is handled between two callbacks,
\* never while a continuation is pending).
PostAggregate ==
    /\ ~MicrotaskPending
    /\ aggregationState.isRunning \/ RoomForRun
    /\ LET h == aggregateHandler(aggregationState)
       IN  /\ aggregationState' = h.state
           /\ lastResponse' = [request |-> "aggregate", status |-> h.status]
           /\ IF h.started
              THEN LET f == aggregateDeviceData(State, "listener")
                   IN  run' = f.run /\ Install(f.S)
              ELSE UNCHANGED <<rateLimiter, loops, calls, fetches, started, submitted,
                               httpLog, run>>
    /\ UNCHANGED <<now, planner, mock>>

\* POST /api/reset arrives.
PostReset ==
    /\ ~MicrotaskPending
    /\ LET h == resetHandler(aggregationState)
       IN  /\ aggregationState' = h.state
           /\ lastResponse' = [request |-> "reset", status |-> h.status]
    /\ UNCHANGED <<now, rateLimiter, loops, calls, fetches, started, submitted, httpLog, run>>
    /\ UNCHANGED <<planner, mock>>

\* The events the listener was handed in the step from run r to run q.
NewEvents(r, q) == SubSeq(q.notified, Len(r.notified) + 1, Len(q.notified))

\* Resume under the dashboard: the listener updates the state object, and when
\* the run returns its report (or throws) the handler's continuation follows
\* at once.
ResumeDashboard ==
    /\ MicrotaskPending
    /\ LET f == afterBatch(State, run)
           new == NewEvents(run, f.run)
           st == IF Len(new) = 0 THEN aggregationState
                 ELSE progressListener(aggregationState, new[1].event)
       IN  /\ run' = f.run
           /\ Install(f.S)
           /\ aggregationState' = IF f.run.pc = "done" THEN runReturned(st, f.run.report)
                                  ELSE IF f.run.pc = "threw" THEN runThrew(st, "error")
                                  ELSE st
    /\ UNCHANGED <<now, planner, lastResponse, mock>>

\* ---- the run against the mock API -----------------------------------------

\* The request of task t reaches the mock API.
MockArrive(t) ==
    /\ fetches[t].pc = "http"
    /\ mock.handled < httpLog.n
    /\ mock' = mockApi(mock, httpLog.sent, fetches[t].lastStart)
    /\ UNCHANGED <<now, rateLimiter, loops, calls, fetches, started, submitted, httpLog, run>>
    /\ UNCHANGED <<planner, aggregationState, lastResponse>>

\* The mock API's answer reaches the client: await fetch(...) resumes.
MockRespond(t) ==
    /\ ~MicrotaskPending
    /\ fetches[t].pc = "http"
    /\ mock.handled = httpLog.n
    /\ Install(onResponse(State, t, mock.response))
    /\ UNCHANGED <<now, run>>
    /\ UNCHANGED outside

\* Time passes while the request, or its answer, travels.
Transit ==
    /\ \E t \in TaskIds :
         /\ fetches[t].pc = "http"
         /\ now + MockTickMs
              <= (IF mock.handled < httpLog.n THEN fetches[t].lastStart ELSE mock.arrivedAt)
                 + MaxDelay
    /\ now + MockTickMs <= StartTime + RunHorizon
    /\ now' = now + MockTickMs
    /\ UNCHANGED <<rateLimiter, loops, calls, fetches, started, submitted, httpLog, run>>
    /\ UNCHANGED outside

\* ---- the planner, step by step --------------------------------------------

\* <<totalDevices, batchSize>>: every small pair, and the wide count.
PlanArguments ==
    ((-1 .. MaxPlanTotal) \X (-1 .. MaxPlanBatch)) \cup {<<WideTotal, WideBatch>>}

\* prepareBatches(totalDevices, batchSize) is called.
PrepareBatches(totalDevices, batchSize) ==
    /\ planner.pc = "idle"
    /\ planner' = enterCreateBatches(totalDevices, batchSize)
    /\ UNCHANGED <<now, rateLimiter, loops, calls, fetches, started, submitted, httpLog, run>>
    /\ UNCHANGED <<aggregationState, lastResponse, mock>>

\* createBatches' loop condition is evaluated once more.
CreateBatchesStep ==
    /\ planner.pc = "loop"
    /\ planner.batchSize >= 1 \/ Len(planner.batches) < MaxPlanSteps
    /\ planner' = createBatchesStep(planner)
    /\ UNCHANGED <<now, rateLimiter, loops, calls, fetches, started, submitted, httpLog, run>>
    /\ UNCHANGED <<aggregationState, lastResponse, mock>>

\* ---- specifications ------------------------------------------------------

\* One aggregation run against an endpoint that may answer anything.
Next ==
    \/ StartRun
    \/ Resume
    \/ \E t \in TaskIds : HttpResponse(t)
    \/ \E t \in TaskIds : BackoffDone(t)
    \/ \E l \in TaskIds : SleepDone(l)
    \/ HttpLatency
    \/ AwaitTimer(RunHorizon)

Spec == Init /\ [][Next]_vars

\* The same run followed to its end. Node's event loop runs every callback
\* that is ready and fires every timer that is due, and every outbound call
\* is taken to complete or fail: no step that can be taken is put off for ever.
\* The clock advances when a timer is awaited; a call is answered in the
\* millisecond it was made.
NextLive ==
    \/ StartRun
    \/ Resume
    \/ \E t \in TaskIds : HttpResponse(t)
    \/ \E t \in TaskIds : BackoffDone(t)
    \/ \E l \in TaskIds : SleepDone(l)
    \/ AwaitTimer(LiveHorizon)

SpecLive == Init /\ [][NextLive]_vars /\ WF_vars(NextLive)

\* The limiter and the client under callers that submit batch fetches while
\* earlier ones are queued, running or retrying.
NextClients ==
    \/ ExecuteFetch
    \/ \E t \in TaskIds : HttpResponse(t)
    \/ \E t \in TaskIds : BackoffDone(t)
    \/ \E l \in TaskIds : SleepDone(l)
    \/ AwaitTimer(ClientsHorizon)

SpecClients == Init /\ [][NextClients]_vars

\* One run with any onProgress, answers arriving at once.
NextObserved ==
    \/ StartRunObserved
    \/ Resume
    \/ \E t \in TaskIds : HttpResponse(t)
    \/ \E t \in TaskIds : BackoffDone(t)
    \/ \E l \in TaskIds : SleepDone(l)
    \/ AwaitTimer(LiveHorizon)

SpecObserved == Init /\ [][NextObserved]_vars

\* The limiter alone, under concurrent callers.
NextLimiter ==
    \/ \E fn \in {"ok", "reject", "throw"} : Execute(fn)
    \/ \E l \in TaskIds : SleepDone(l)
    \/ \E l \in TaskIds : FnSettle(l)
    \/ Clear
    \/ TickLimiter
    \/ AwaitTimer(LimiterHorizon)

SpecLimiter == Init /\ [][NextLimiter]_vars

\* The clock runs on after the last submission for as long as the queue can
\* take to drain.
DrainHorizon == SubmitHorizon + (MaxTasks + 1) * RATE_LIMIT_MS

\* The limiter followed until its queue is drained: callers submit when they
\* like and nobody calls clear(); every timer that is due fires and every
\* task's promise settles.
NextDrain ==
    \/ \E fn \in {"ok", "reject", "throw"} : Execute(fn)
    \/ \E l \in TaskIds : SleepDone(l)
    \/ \E l \in TaskIds : FnSettle(l)
    \/ Tick(SubmitHorizon)
    \/ AwaitTimer(DrainHorizon)

SpecDrain ==
    /\ Init
    /\ [][NextDrain]_vars
    /\ WF_vars(\E l \in TaskIds : SleepDone(l))
    /\ WF_vars(\E l \in TaskIds : FnSettle(l))
    /\ WF_vars(AwaitTimer(DrainHorizon))

\* prepareBatches() alone, for every pair of arguments.
NextPlanner ==
    \/ \E args \in PlanArguments : PrepareBatches(args[1], args[2])
    \/ CreateBatchesStep

SpecPlanner == Init /\ [][NextPlanner]_vars

\* The dashboard: start and reset requests at any time, runs one after another.
NextDashboard ==
    \/ PostAggregate
    \/ PostReset
    \/ ResumeDashboard
    \/ \E t \in TaskIds : HttpResponse(t)
    \/ \E t \in TaskIds : BackoffDone(t)
    \/ \E l \in TaskIds : SleepDone(l)
    \/ AwaitTimer(DashboardHorizon)

SpecDashboard == Init /\ [][NextDashboard]_vars

\* The dashboard's first run followed to its end: requests arrive when they
\* like; every call is answered (or fails) at once, every timer that is due
\* fires and every continuation runs.
NextDashboardLive ==
    \/ PostAggregate /\ (aggregationState.isRunning \/ submitted = <<>>)
    \/ PostReset
    \/ ResumeDashboard
    \/ \E t \in TaskIds : HttpResponse(t)
    \/ \E t \in TaskIds : BackoffDone(t)
    \/ \E l \in TaskIds : SleepDone(l)
    \/ AwaitTimer(LiveHorizon)

\* What the event loop does for the run: a continuation, an answer, a timer.
RunSteps ==
    \/ ResumeDashboard
    \/ \E t \in TaskIds : HttpResponse(t)
    \/ \E t \in TaskIds : BackoffDone(t)
    \/ \E l \in TaskIds : SleepDone(l)
    \/ AwaitTimer(LiveHorizon)

SpecDashboardLive == Init /\ [][NextDashboardLive]_vars /\ WF_vars(RunSteps)

\* One aggregation run against production.js' mock API.
NextMock ==
    \/ StartRun
    \/ Resume
    \/ \E t \in TaskIds : MockArrive(t)
    \/ \E t \in TaskIds : MockRespond(t)
    \/ \E t \in TaskIds : BackoffDone(t)
    \/ \E l \in TaskIds : SleepDone(l)
    \/ Transit
    \/ AwaitTimer(RunHorizon)

SpecMock == Init /\ [][NextMock]_vars

\* ---- properties ----------------------------------------------------------

\* The processQueue() invocations that are inside their while loop.
ActiveLoops == {l \in TaskIds : loops[l].pc # "idle"}

\* The tasks the loop took off the queue whose promise has not settled yet.
Dequeued ==
    {t \in TaskIds : /\ calls[t].promise = "pending"
                     /\ ~calls[t].cleared
                     /\ \A k \in 1..Len(rateLimiter.queue) : rateLimiter.queue[k] # t}

\* C1: consecutive tasks of one RateLimiter never start less than intervalMs
\* apart, whoever submitted them and whenever.
C1_PacingGap ==
    \A i \in 1..(Len(started) - 1) :
        started[i + 1].at - started[i].at >= rateLimiter.intervalMs

\* Three tasks have started, two of them exactly intervalMs apart.
C1_Witness ==
    /\ Len(started) >= 3
    /\ \E i \in 1..(Len(started) - 1) :
          started[i + 1].at - started[i].at = rateLimiter.intervalMs

\* C2: any two consecutive outbound HTTP calls (first attempts and retries
\* alike) start at least the pacing interval apart.
C2_CallSpacing ==
    httpLog.n >= 2 => httpLog.last - httpLog.prev >= RATE_LIMIT_MS

\* C3: at most one worker loop is active, at most one task is off the queue
\* and unsettled, it is the one the loop holds, and no task is run twice.
C3_OneAtATime ==
    /\ Cardinality(ActiveLoops) <= 1
    /\ Cardinality(Dequeued) <= 1
    /\ \A t \in Dequeued : \E l \in ActiveLoops : loops[l].task = t
    /\ \A t \in TaskIds : calls[t].runs <= 1
    /\ rateLimiter.processing <=> ActiveLoops # {}

\* A task is executing while two more submissions wait in the queue.
C3_Witness ==
    /\ \E l \in TaskIds : loops[l].pc = "await"
    /\ Len(rateLimiter.queue) >= 2

\* C4: tasks start in the order in which execute() was called: the started
\* tasks are, in submission order, the submitted ones that clear() did not
\* drop, up to the last one started.
C4_FifoOrder ==
    /\ \A i \in 1..Len(submitted) : submitted[i] = i
    /\ \A i \in 1..(Len(started) - 1) : started[i].task < started[i + 1].task
    /\ \A i \in 1..Len(started) :
          \A u \in 1..(started[i].task - 1) :
              \/ calls[u].cleared
              \/ \E j \in 1..(i - 1) : started[j].task = u

\* Three tasks have started, the second one while the third was waiting.
C4_Witness ==
    /\ Len(started) >= 3
    /\ started[2].waiting >= 1

\* C5: a failure reaches the promise of its own execute() call only, every
\* promise gets the outcome of its own fn, and the worker loop stays alive
\* while entries are queued or a dequeued task is unsettled.
C5_FailureIsolation ==
    /\ \A t \in TaskIds :
          /\ calls[t].promise = "rejected" =>
                /\ calls[t].fn \in {"reject", "throw"}
                /\ calls[t].value.error
                     = (IF calls[t].fn = "throw" THEN "thrown" ELSE "rejected")
          /\ calls[t].promise = "resolved" => calls[t].fn = "ok"
    /\ Len(rateLimiter.queue) > 0 => ActiveLoops # {}
    /\ \A t \in Dequeued : \E l \in ActiveLoops : loops[l].task = t

\* A task failed while another one was queued behind it, and that one was
\* then run and resolved.
C5_Witness ==
    \E i \in 1..(Len(started) - 1) :
        /\ calls[started[i].task].promise = "rejected"
        /\ started[i].waiting >= 1
        /\ calls[started[i + 1].task].promise = "resolved"

\* C6: a call answered 429 on every attempt makes MAX_RETRIES + 1 attempts,
\* waits INITIAL_RETRY_DELAY_MS * 2^k before its (k+1)-th retry and then fails
\* with the rate-limit-exceeded error.
C6_Persistent429 ==
    \A t \in TaskIds :
        fetches[t].seen = {"429"} =>
            LET f == fetches[t]
            IN  /\ f.attempts = f.retryCount + 1
                /\ f.retryCount <= MAX_RETRIES
                /\ f.pc = "backoff" =>
                      /\ f.retryCount < MAX_RETRIES
                      /\ f.wake - f.sleepFrom
                           = INITIAL_RETRY_DELAY_MS * Pow2(f.retryCount)
                /\ (f.pc \in {"http", "done"} /\ f.retryCount >= 1) =>
                      f.lastStart - f.sleepFrom
                        >= INITIAL_RETRY_DELAY_MS * Pow2(f.retryCount - 1)
                /\ f.pc = "done" =>
                      /\ f.attempts = MAX_RETRIES + 1
                      /\ calls[t].promise = "rejected"
                      /\ calls[t].value.error = RateLimitExceeded

\* A call has failed after 429 on each of its attempts.
C6_Witness ==
    \E t \in TaskIds :
        /\ fetches[t].seen = {"429"}
        /\ fetches[t].pc = "done"
        /\ fetches[t].attempts = MAX_RETRIES + 1

C8_TransportRetry ==
    \A t \in TaskIds :
        fetches[t].last = "neterr" =>
            LET f == fetches[t]
            IN  \/ /\ f.pc = "backoff"
                   /\ f.retryCount < MAX_RETRIES
                   /\ f.wake - f.sleepFrom
                        = INITIAL_RETRY_DELAY_MS * Pow2(f.retryCount)
                \/ /\ f.pc = "http"
                   /\ f.retryCount >= 1
                   /\ f.lastStart - f.sleepFrom
                        >= INITIAL_RETRY_DELAY_MS * Pow2(f.retryCount - 1)
                \/ /\ f.pc = "done"
                   /\ f.retryCount = MAX_RETRIES
                   /\ calls[t].promise = "rejected"
                   /\ calls[t].value.error = FetchFailed

\* A call has failed with the transport error after failing on every attempt.
C8_Witness ==
    \E t \in TaskIds :
        /\ fetches[t].seen = {"neterr"}
        /\ fetches[t].pc = "done"
        /\ fetches[t].attempts = MAX_RETRIES + 1

\* C9: whatever the batches' outcomes, the run submits every batch of the plan
\* once and in plan order, never leaves its loop early, and ends with a report.
C9_RunNeverAborts ==
    /\ run.pc \in {"idle", "await", "done"}
    /\ Len(submitted) = (IF run.pc = "idle" THEN 0
                         ELSE IF run.pc = "await" THEN run.i + 1
                         ELSE run.totalBatches)
    /\ \A j \in 1..Len(submitted) :
          /\ submitted[j] = j
          /\ calls[j].arg = run.batches[j]
          /\ calls[j].runs <= 1
    /\ run.pc = "done" =>
          /\ run.i = run.totalBatches
          /\ run.batches = prepareBatches(TotalDevices, BatchSize).batches
          /\ \A j \in 1..run.totalBatches :
                calls[j].promise \in {"resolved", "rejected"}
          /\ run.report.summary.totalBatches = run.totalBatches
          /\ run.report.summary.errorsCount = Len(run.errors)

\* The run has ended with a report although its first batch failed.
C9_Witness ==
    /\ run.pc = "done"
    /\ run.totalBatches >= 2
    /\ Len(run.report.errors) >= 1
    /\ run.report.errors[1].batch = 1
    /\ Len(submitted) = run.totalBatches

\* C10: at the end of a run every batch that contributed no device to the
\* report has exactly one entry in Report.errors, with its number, its
\* identifiers and the error message.
C10_EveryFailedBatchListed ==
    run.pc = "done" =>
        \A b \in 1..run.totalBatches :
            LET counted == \E k \in 1..Len(run.report.devices) :
                              \E j \in 1..Len(run.batches[b]) :
                                  run.report.devices[k].sn = run.batches[b][j]
                entries == {k \in 1..Len(run.report.errors) :
                              run.report.errors[k].batch = b}
            IN  ~counted =>
                    /\ Cardinality(entries) = 1
                    /\ \A k \in entries :
                          /\ run.report.errors[k].serialNumbers = run.batches[b]
                          /\ run.report.errors[k].error = calls[b].value.error

\* ---- the report of a run ---------------------------------------------------

\* Every batch of the finished run was answered with a data array (task b of
\* the limiter is batch b: the run is the limiter's only client).
AllBatchesAnswered ==
    /\ run.pc = "done"
    /\ \A b \in 1..run.totalBatches :
         calls[b].promise = "resolved" /\ calls[b].value.hasData

\* C11: when every batch of a run is answered successfully with one record per
\* requested device, the report counts every device as fetched and none as
\* failed, has ceil(totalDevices / batchSize) batches and no errors list, lists
\* the devices in plan order, and its duration is at least
\* (totalBatches - 1) pacing intervals.
C11_AllSuccessReport ==
    AllBatchesAnswered =>
        /\ run.report.summary.totalDevices = TotalDevices
        /\ run.report.summary.successfulFetches = TotalDevices
        /\ run.report.summary.failedFetches = 0
        /\ run.report.summary.totalBatches = (TotalDevices + BatchSize - 1) \div BatchSize
        /\ ~run.report.errorsDefined
        /\ run.report.summary.errorsCount = 0
        /\ Len(run.report.devices) = TotalDevices
        /\ \A k \in 1..Len(run.report.devices) :
             run.report.devices[k].sn = SerialNumber(k - 1)
        /\ run.report.summary.durationSeconds * 10
             >= (run.report.summary.totalBatches - 1) * RATE_LIMIT_MS

C11_Witness ==
    /\ AllBatchesAnswered
    /\ run.totalBatches >= 2
    /\ Len(run.report.devices) = TotalDevices

\* ---- progress events -------------------------------------------------------

\* Batches the loop is through with: all of them once the report is made,
\* those before the awaited one otherwise.
Handled == IF run.pc = "done" THEN run.totalBatches ELSE run.i

\* Batch b's call resolved with a data array: its records were added.
Succeeded(b) == calls[b].promise = "resolved" /\ calls[b].value.hasData

RECURSIVE FetchedUpTo(_)
\* Records answered for the batches 1 .. b.
FetchedUpTo(b) ==
    IF b = 0 THEN 0
    ELSE FetchedUpTo(b - 1) + (IF Succeeded(b) THEN Len(calls[b].value.data) ELSE 0)

\* C12: the progress listener is called exactly once for each batch that
\* succeeds, after the batch's records and counters were added (the event's
\* successCount includes the batch), and never for a batch that fails.
C12_ProgressPerSuccess ==
    /\ run.onProgress = "none" => run.notified = <<>>
    /\ run.onProgress = "listener" =>
        /\ \A b \in 1..Handled :
             Cardinality({k \in DOMAIN run.notified :
                            run.notified[k].event.batchIndex = b - 1})
               = (IF Succeeded(b) THEN 1 ELSE 0)
        /\ \A k \in DOMAIN run.notified :
             LET e == run.notified[k].event
                 b == e.batchIndex + 1
             IN  /\ b \in 1..Handled
                 /\ e.batchResults = calls[b].value.data
                 /\ e.successCount = FetchedUpTo(b)
                 /\ e.onlineCount + e.offlineCount = e.successCount
                 /\ e.totalBatches = run.totalBatches

C12_Witness ==
    /\ run.pc = "done"
    /\ run.onProgress = "listener"
    /\ Len(run.notified) = 1
    /\ Len(run.errors) = 1
    /\ run.notified[1].event.batchIndex = 1

\* C13: progress events are delivered in batch order: batchIndex strictly
\* increases, the percentage and successCount never decrease, and the event
\* for batch i is delivered before batch i + 1 is given to the limiter.
C13_ProgressInOrder ==
    /\ \A k \in DOMAIN run.notified :
         LET e == run.notified[k].event
         IN  /\ run.notified[k].submitted = e.batchIndex + 1
             \* the percentage is (i + 1) / totalBatches, to a twentieth of a percent
             /\ 2 * e.progress * e.totalBatches <= 2 * (e.batchIndex + 1) * 1000 + e.totalBatches
             /\ 2 * e.progress * e.totalBatches >= 2 * (e.batchIndex + 1) * 1000 - e.totalBatches
    /\ \A k \in DOMAIN run.notified : \A j \in DOMAIN run.notified :
         j < k =>
            /\ run.notified[j].event.batchIndex < run.notified[k].event.batchIndex
            /\ run.notified[j].event.progress <= run.notified[k].event.progress
            /\ run.notified[j].event.successCount <= run.notified[k].event.successCount

C13_Witness ==
    /\ Len(run.notified) = 2
    /\ run.notified[1].event.progress < run.notified[2].event.progress
    /\ run.notified[2].event.progress = 1000

\* ---- the plan ---------------------------------------------------------------

RECURSIVE parseInt(_)
\* The number a string of decimal digits denotes.
parseInt(digits) ==
    IF Len(digits) = 0 THEN 0
    ELSE 10 * parseInt(SubSeq(digits, 1, Len(digits) - 1)) + digits[Len(digits)]

\* C14: for totalDevices >= 0 and batchSize >= 1 prepareBatches returns
\* ceil(totalDevices / batchSize) batches that partition the identifiers of the
\* indices 0 .. totalDevices - 1 in ascending order: every index once, every
\* batch non-empty and at most batchSize long, all but the last exactly
\* batchSize long; the stepped loop and the function agree on the result.
C14_PlanPartitions ==
    (planner.pc = "done" /\ planner.totalDevices >= 0 /\ planner.batchSize >= 1) =>
        LET n == planner.totalBatches
            size == planner.batchSize
            total == planner.totalDevices
        IN  /\ n = (total + size - 1) \div size
            /\ n = Len(planner.batches)
            /\ Len(planner.serialNumbers) = total
            /\ \A b \in 1..n :
                 /\ Len(planner.batches[b]) >= 1
                 /\ Len(planner.batches[b]) <= size
                 /\ b < n => Len(planner.batches[b]) = size
                 /\ b = n => Len(planner.batches[b]) = total - (n - 1) * size
                 /\ \A j \in 1..Len(planner.batches[b]) :
                      /\ planner.batches[b][j].prefix = "SN-"
                      /\ Len(planner.batches[b][j].digits) >= 3
                      /\ parseInt(planner.batches[b][j].digits) = (b - 1) * size + (j - 1)
            /\ prepareBatches(total, size).batches = planner.batches
            /\ prepareBatches(total, size).totalBatches = n

C14_Witness ==
    /\ planner.pc = "done"
    /\ planner.totalDevices = WideTotal
    /\ planner.batchSize >= 1
    /\ planner.totalBatches >= 2
    /\ Len(planner.batches[planner.totalBatches]) < planner.batchSize
    /\ Len(planner.serialNumbers[planner.totalDevices].digits) > 3

\* C15: a non-positive batch size or device count is refused before the plan
\* is made: createBatches' loop is never entered with such arguments and no
\* plan is returned for them.
C15_InvalidConfigurationRefused ==
    (planner.batchSize <= 0 \/ planner.totalDevices <= 0) => planner.pc = "idle"

\* ---- authentication headers ------------------------------------------------

RECURSIVE AttemptsUpTo(_)
\* Outbound attempts of the tasks 1 .. t.
AttemptsUpTo(t) == IF t = 0 THEN 0 ELSE AttemptsUpTo(t - 1) + fetches[t].attempts

\* C16: every outbound attempt, retries included, carries headers generated
\* for that attempt alone: generateAuthHeaders is called once per attempt, and
\* the request sent carries the timestamp and signature that call produced
\* (the clock at the attempt, and the digest of endpoint + token + that
\* timestamp), never those made for another attempt.
C16_FreshAuthHeaders ==
    /\ httpLog.n = AttemptsUpTo(MaxTaskId)
    /\ httpLog.generated = httpLog.n
    /\ httpLog.n > 0 =>
        /\ httpLog.sent.call = httpLog.n
        /\ httpLog.sent.timestamp = toString(httpLog.last)
        /\ httpLog.sent.signature
             = generateSignature(API_ENDPOINT, SECRET_TOKEN, httpLog.sent.timestamp)
    /\ \A t \in TaskIds :
         fetches[t].attempts > 0 =>
            /\ fetches[t].authHeaders.timestamp = toString(fetches[t].lastStart)
            /\ fetches[t].pc = "http" =>
                 \E c \in 1..httpLog.n : fetches[t].authHeaders.call = c
            /\ \A u \in TaskIds :
                 (u # t /\ fetches[u].attempts > 0) =>
                    fetches[u].authHeaders.call # fetches[t].authHeaders.call

C16_Witness ==
    \E t \in TaskIds :
        /\ fetches[t].pc = "http"
        /\ fetches[t].attempts >= 2
        /\ httpLog.sent.call >= 3
        /\ httpLog.sent.sn_list = fetches[t].snList

\* ---- the dashboard -----------------------------------------------------------

\* C17: a start request that arrives while isRunning is true is answered 409,
\* starts no run and changes no state: the state object, the run in progress,
\* the limiter and the outbound calls are as before.
C17_StartRefusedWhileRunning ==
    [][(PostAggregate /\ aggregationState.isRunning) =>
          /\ lastResponse' = [request |-> "aggregate", status |-> 409]
          /\ aggregationState' = aggregationState
          /\ run' = run
          /\ submitted' = submitted
          /\ rateLimiter' = rateLimiter
          /\ calls' = calls
          /\ fetches' = fetches
          /\ httpLog' = httpLog]_vars

C17_Witness ==
    /\ lastResponse = [request |-> "aggregate", status |-> 409]
    /\ aggregationState.isRunning
    /\ run.pc = "await"
    /\ Len(aggregationState.devices) > 0

\* C20: a reset request is answered 409 and changes nothing while a run is in
\* progress; while idle it replaces the state object with the initial one:
\* isRunning false, progress 0, no devices, no summary, no errors.
C20_ResetOnlyWhenIdle ==
    [][PostReset =>
          IF aggregationState.isRunning
          THEN /\ lastResponse' = [request |-> "reset", status |-> 409]
               /\ aggregationState' = aggregationState
               /\ run' = run
          ELSE /\ lastResponse' = [request |-> "reset", status |-> 200]
               /\ ~aggregationState'.isRunning
               /\ aggregationState'.progress = 0
               /\ aggregationState'.devices = <<>>
               /\ ~aggregationState'.hasSummary
               /\ aggregationState'.errors = <<>>
               /\ aggregationState'.startTime = <<>>
               /\ aggregationState'.counts = <<>>]_vars

C20_Witness ==
    /\ lastResponse = [request |-> "reset", status |-> 200]
    /\ run.pc = "done"
    /\ Len(run.report.devices) > 0
    /\ aggregationState.devices = <<>>
    /\ ~aggregationState.hasSummary

\* ---- the run against the mock API --------------------------------------------

C19_RunReturns ==
    /\ [](AttemptsUpTo(MaxTaskId) <= run.totalBatches * (MAX_RETRIES + 1))
    /\ [](run.pc = "done" =>
            /\ run.i = run.totalBatches
            /\ \A b \in 1..run.totalBatches : fetches[b].attempts >= 1)
    /\ (run.pc = "await") ~> (run.pc = "done")

C19_Witness ==
    /\ run.pc = "done"
    /\ AttemptsUpTo(MaxTaskId) = run.totalBatches * (MAX_RETRIES + 1)
    /\ run.totalBatches >= 2

\* ---- retries and the limiter's tasks -----------------------------------------

\* C21: the retries of a batch run inside the limiter task of its first
\* attempt: lastRequestTime is written once per task, when the task starts,
\* and at no other time; a retry starts when its backoff timer fires, without
\* a pacing wait and without touching the limiter; and while a fetch is in
\* flight or backing off, its task is the last one the limiter started.
C21_RetriesInsideTask ==
    /\ [](\A t \in TaskIds :
            /\ calls[t].runs <= 1
            /\ Cardinality({k \in DOMAIN started : started[k].task = t}) = calls[t].runs)
    /\ [](Len(started) > 0 => rateLimiter.lastRequestTime = started[Len(started)].at)
    /\ [][rateLimiter.lastRequestTime' # rateLimiter.lastRequestTime
            => Len(started') = Len(started) + 1]_vars
    /\ [][\A t \in TaskIds :
            (fetches[t].pc = "backoff" /\ fetches'[t].pc # "backoff") =>
                /\ fetches'[t].pc = "http"
                /\ fetches'[t].attempts = fetches[t].attempts + 1
                /\ fetches'[t].lastStart = now
                /\ now = fetches[t].sleepFrom + fetches[t].delay
                /\ rateLimiter' = rateLimiter
                /\ loops' = loops
                /\ started' = started]_vars
    /\ [](\A t \in TaskIds :
            fetches[t].pc \in {"http", "backoff"} =>
                /\ Len(started) > 0
                /\ started[Len(started)].task = t)

C21_Witness ==
    \E t \in TaskIds :
        /\ fetches[t].pc = "http"
        /\ fetches[t].attempts >= 2
        /\ Len(rateLimiter.queue) >= 1
        /\ rateLimiter.lastRequestTime < fetches[t].lastStart
        /\ started[Len(started)].task = t

\* C22: one fetchDeviceData call makes at most MAX_RETRIES + 1 outbound
\* attempts whatever mix of 429 answers and transport failures it meets: every
\* retry of either kind raises the one retry counter, and a call that has
\* failed is not taken up again: a transport or rate-limit failure is final
\* only at the last retry, and its error is the one of the last attempt.
C22_AttemptsBounded ==
    \A t \in TaskIds :
        LET f == fetches[t]
        IN  /\ f.attempts <= MAX_RETRIES + 1
            /\ f.pc # "idle" => f.attempts = f.retryCount + 1
            /\ f.pc = "backoff" =>
                 /\ f.retryCount < MAX_RETRIES
                 /\ f.last \in {"429", "neterr"}
            /\ (f.pc = "done" /\ calls[t].promise = "rejected"
                  /\ calls[t].value.error = FetchFailed) =>
                 (f.last = "neterr" /\ f.attempts = MAX_RETRIES + 1)
            /\ (f.pc = "done" /\ calls[t].promise = "rejected"
                  /\ calls[t].value.error = RateLimitExceeded) =>
                 (f.last = "429" /\ f.attempts = MAX_RETRIES + 1)
            /\ f.attempts > 1 => f.seen \cap {"429", "neterr"} # {}

C22_Witness ==
    \E t \in TaskIds :
        /\ fetches[t].pc = "done"
        /\ fetches[t].attempts = MAX_RETRIES + 1
        /\ {"429", "neterr"} \subseteq fetches[t].seen
        /\ calls[t].promise = "rejected"
        /\ calls[t].value.error = FetchFailed

\* ---- the limiter's queue -----------------------------------------------------

\* C23: nobody calling clear() and every task terminating, no submission is
\* lost: whenever no loop is running (processing = false) the queue is empty,
\* and every task given to execute() is started and its promise settled.
C23_NoSubmissionLost ==
    /\ [](~rateLimiter.processing => rateLimiter.queue = <<>>)
    /\ \A t \in TaskIds :
         (calls[t].promise = "pending")
            ~> (calls[t].promise \in {"resolved", "rejected"} /\ calls[t].runs = 1)

C23_Witness ==
    /\ Len(submitted) = MaxTasks
    /\ ~rateLimiter.processing
    /\ \A t \in 1..MaxTasks : calls[t].promise \in {"resolved", "rejected"}
    /\ \E k \in DOMAIN started : started[k].waiting >= 1
    /\ \E k \in DOMAIN started : k > 1 /\ started[k].waiting = 0

\* The task t is held by a loop: dequeued, and waiting for its slot or running.
HeldByLoop(t) == \E l \in TaskIds : loops[l].pc \in {"sleep", "await"} /\ loops[l].task = t

\* C24: clear() drops the tasks that wait in the queue: they are never run and
\* their promises stay pending for ever; the task that was already dequeued
\* is not dropped, it runs and its outcome is delivered; and tasks submitted
\* after clear() run as usual, so that when the limiter is idle every task
\* that was not dropped has run once and is settled.
C24_ClearDropsWaiting ==
    /\ \A t \in TaskIds :
         calls[t].cleared =>
            /\ calls[t].promise = "pending"
            /\ calls[t].runs = 0
            /\ ~HeldByLoop(t)
            /\ \A k \in DOMAIN rateLimiter.queue : rateLimiter.queue[k] # t
            /\ \A k \in DOMAIN started : started[k].task # t
    /\ \A t \in TaskIds :
         (calls[t].promise = "pending" /\ ~calls[t].cleared) =>
            \/ \E k \in DOMAIN rateLimiter.queue : rateLimiter.queue[k] = t
            \/ HeldByLoop(t)
    /\ (\E t \in TaskIds : calls[t].promise = "pending" /\ ~calls[t].cleared)
         => rateLimiter.processing
    /\ \A t \in TaskIds :
         calls[t].promise \in {"resolved", "rejected"} => calls[t].runs = 1

C24_Witness ==
    /\ ~rateLimiter.processing
    /\ \E t \in TaskIds : \E u \in TaskIds : \E v \in TaskIds :
         /\ t < u /\ u < v
         /\ calls[t].promise \in {"resolved", "rejected"}
         /\ calls[u].cleared
         /\ calls[v].promise \in {"resolved", "rejected"}
         /\ \E k \in DOMAIN started : started[k].task = v

\* The report holds records of batch b of the plan.
Contributed(b) ==
    \E k \in DOMAIN run.report.devices : \E j \in DOMAIN run.batches[b] :
        run.report.devices[k].sn = run.batches[b][j]

\* Batch b of the plan is listed in the report's errors.
Listed(b) == \E k \in DOMAIN run.report.errors : run.report.errors[k].batch = b

\* C25: at the end of a run, whatever onProgress does, every batch is either
\* in the report's devices (and counted in successfulFetches) or listed in its
\* errors, never both, and errorsCount is the number of batches that
\* contributed no records.
C25_AccountedOneWay ==
    run.pc = "done" =>
       /\ \A b \in 1..run.totalBatches : Contributed(b) # Listed(b)
       /\ run.report.summary.successfulFetches = Len(run.report.devices)
       /\ run.report.summary.errorsCount
            = Cardinality({b \in 1..run.totalBatches : ~Contributed(b)})

\* [...a, ...b, ...] of the batchResults of the progress events from index k on.
RECURSIVE ConcatBatchResults(_, _)
ConcatBatchResults(notified, k) ==
    IF k > Len(notified) THEN <<>>
    ELSE notified[k].event.batchResults \o ConcatBatchResults(notified, k + 1)

\* C26: a run the dashboard has started ends and isRunning becomes false again;
\* whenever isRunning is false the start handler accepts a request; and when
\* the run has returned its report the state holds the report's summary and
\* errors, progress is 100 and devices is the concatenation of the
\* batchResults of the run's progress events, which is the report's devices.
C26_DashboardRunEnds ==
    /\ aggregationState.isRunning ~> ~aggregationState.isRunning
    /\ [](aggregationState.isRunning <=> run.pc = "await")
    /\ [](~aggregationState.isRunning =>
            /\ aggregateHandler(aggregationState).started
            /\ aggregateHandler(aggregationState).status = 200
            /\ aggregateHandler(aggregationState).state.isRunning)
    /\ [](aggregationState.hasSummary =>
            /\ ~aggregationState.isRunning
            /\ run.pc = "done"
            /\ aggregationState.summary = run.report.summary
            /\ aggregationState.errors = run.report.errors
            /\ aggregationState.progress = 1000
            /\ aggregationState.devices = ConcatBatchResults(run.notified, 1)
            /\ aggregationState.devices = run.report.devices)

C26_Witness ==
    /\ ~aggregationState.isRunning
    /\ aggregationState.hasSummary
    /\ aggregationState.progress = 1000
    /\ Len(aggregationState.devices) > 0
    /\ Len(aggregationState.errors) > 0
    /\ Len(run.notified) > 0

====
